---- MODULE Spec2Model ----
(***************************************************************************)
(* Model of scripts/sync-products.py (Shopify product sync).               *)
(*                                                                         *)
(* Text is modelled as a sequence of one-character strings, so that        *)
(* lower(), html.escape(), `in`, str.index and str.replace are computed    *)
(* character by character.  A dict is a function on its keys; dict.get     *)
(* is Get.                                                                 *)
(***************************************************************************)
EXTENDS Integers, Sequences, FiniteSets, TLC

VARIABLES
    products,   \* the catalog handed to the operation (list of product dicts)
    result,     \* what the last rendering operation computed
    shop,       \* the entries of the shop/ directory, by name
    status,     \* how the last generate_product_pages call ended
    removed,    \* names of the directories that call removed
    prior,      \* handles whose page the preceding call wrote
    rerun,      \* the last call repeated the catalog of a call that returned
    html,       \* content of the host document on disk
    before,     \* content of the host document before the last injection
    call,       \* the last injection call: function and arguments
    ret,        \* what the last injection call returned
    original,   \* content of the host document before the first injection
    trail,      \* the injection functions called on the document so far
    disk,       \* the files of the repository that a run of main reads or writes
    twin,       \* the files as a second run of main on the same input has them
    start,      \* the files as they were when the run of main started
    run         \* the run of main: where it is, its exit status, the steps run

vars == <<products, result, shop, status, removed, prior, rerun,
          html, before, call, ret, original, trail, disk, twin, start, run>>

renderVars == <<products, result>>
pageVars == <<shop, status, removed, prior, rerun>>
injectVars == <<html, before, call, ret, original, trail>>
mainVars == <<disk, twin, start, run>>

-----------------------------------------------------------------------------
(* Bounds of the model *)

MaxCatalog == 6
MaxPieces == 3
MaxDocLen == 120
MaxPageCatalog == 2

-----------------------------------------------------------------------------
(* Text *)

\* str.lower() on the characters the model uses
LowerChar(c) ==
    CASE c = "A" -> "a" [] c = "B" -> "b" [] c = "C" -> "c" [] c = "D" -> "d"
      [] c = "E" -> "e" [] c = "F" -> "f" [] c = "G" -> "g" [] c = "H" -> "h"
      [] c = "I" -> "i" [] c = "J" -> "j" [] c = "K" -> "k" [] c = "L" -> "l"
      [] c = "M" -> "m" [] c = "N" -> "n" [] c = "O" -> "o" [] c = "P" -> "p"
      [] c = "Q" -> "q" [] c = "R" -> "r" [] c = "S" -> "s" [] c = "T" -> "t"
      [] c = "U" -> "u" [] c = "V" -> "v" [] c = "W" -> "w" [] c = "X" -> "x"
      [] c = "Y" -> "y" [] c = "Z" -> "z" [] OTHER -> c

lower(s) == [i \in 1..Len(s) |-> LowerChar(s[i])]

\* sub occurs in s at position i (1-based)
OccursAt(s, sub, i) ==
    /\ i >= 1
    /\ i + Len(sub) - 1 <= Len(s)
    /\ \A k \in 1..Len(sub) : s[i + k - 1] = sub[k]

\* Python's `sub in s`
Contains(s, sub) == \E i \in 1..(Len(s) + 1) : OccursAt(s, sub, i)

\* Python's s.index(sub) as a 0-based offset; -1 stands for ValueError
Index(s, sub) ==
    IF Contains(s, sub)
    THEN (CHOOSE i \in 1..(Len(s) + 1) :
              /\ OccursAt(s, sub, i)
              /\ \A j \in 1..(i - 1) : ~OccursAt(s, sub, j)) - 1
    ELSE -1

\* Python slices s[:n] and s[n:] for 0 <= n
Upto(s, n) == SubSeq(s, 1, IF n < Len(s) THEN n ELSE Len(s))
From(s, n) == SubSeq(s, n + 1, Len(s))

RECURSIVE Concat(_)
Concat(parts) ==
    IF parts = <<>> THEN <<>> ELSE Head(parts) \o Concat(Tail(parts))

\* html.escape(s, quote=True)
EscapeChar(c) ==
    CASE c = "&" -> <<"&", "a", "m", "p", ";">>
      [] c = "<" -> <<"&", "l", "t", ";">>
      [] c = ">" -> <<"&", "g", "t", ";">>
      [] c = "\"" -> <<"&", "q", "u", "o", "t", ";">>
      [] c = "'" -> <<"&", "#", "x", "2", "7", ";">>
      [] OTHER -> <<c>>

escape(s) == Concat([i \in 1..Len(s) |-> EscapeChar(s[i])])

\* Decimal digits: the character of a digit, two-digit text, str(int), int(str)
Digit(n) == <<"0", "1", "2", "3", "4", "5", "6", "7", "8", "9">>[n + 1]
Num(n) == <<Digit(n \div 10), Digit(n % 10)>>

RECURSIVE IntToStr(_)
IntToStr(n) == IF n < 10 THEN <<Digit(n)>> ELSE IntToStr(n \div 10) \o <<Digit(n % 10)>>

DigitValue(c) == CHOOSE d \in 0..9 : Digit(d) = c

RECURSIVE StrToInt(_)
StrToInt(s) ==
    IF s = <<>> THEN 0
    ELSE StrToInt(SubSeq(s, 1, Len(s) - 1)) * 10 + DigitValue(s[Len(s)])

\* dict.get(key, default)
Get(d, key, default) == IF key \in DOMAIN d THEN d[key] ELSE default

EmptyDict == [k \in {} |-> <<>>]

-----------------------------------------------------------------------------
(* Configuration and literals of the script *)

SHOPIFY_DOMAIN ==
    <<"d", "b", "x", "3", "h", "f", "-", "q", "e", ".", "m", "y", "s", "h",
      "o", "p", "i", "f", "y", ".", "c", "o", "m">>

CUSTOM_TAG ==
    <<"c", "u", "s", "t", "o", "m", " ", "p", "h", "o", "t", "o", " ", "m",
      "a", "g", "n", "e", "t", "s">>

CUSTOM_TITLE == <<"c", "u", "s", "t", "o", "m", " ", "p", "h", "o", "t", "o">>

FEATURED_TAG == <<"f", "e", "a", "t", "u", "r", "e", "d">>

-----------------------------------------------------------------------------
(* Catalog normalizer *)

\* is_custom_product with the title test alone
is_custom_title_only(product) ==
    Contains(lower(Get(product, "title", <<>>)), CUSTOM_TITLE)

is_custom_product(product) ==
    LET tags == Get(product, "tags", <<>>)
        tags_lower == [i \in 1..Len(tags) |-> lower(tags[i])]
        title_lower == lower(Get(product, "title", <<>>))
    IN  IF \E i \in 1..Len(tags_lower) : tags_lower[i] = CUSTOM_TAG
        THEN TRUE
        ELSE Contains(title_lower, CUSTOM_TITLE)

get_category(product) ==
    IF is_custom_product(product) THEN "custom" ELSE "premade"

get_first_variant_id(product) ==
    LET variants == Get(Get(product, "variants", EmptyDict), "nodes", <<>>)
    IN  IF variants # <<>> THEN Get(variants[1], "id", <<>>) ELSE <<>>

\* float(amount) of a decimal amount, in hundredths.  The API sends USD
\* amounts with at most two decimals, which float() and the two-decimal
\* format carry exactly; further decimals are cut here.
float_amount(amount) ==
    LET dot == Index(amount, <<".">>)
        whole == IF dot = -1 THEN amount ELSE Upto(amount, dot)
        frac == IF dot = -1 THEN <<>> ELSE Upto(From(amount, dot + 1), 2)
    IN  StrToInt(whole) * 100
            + (IF Len(frac) = 1 THEN StrToInt(frac) * 10 ELSE StrToInt(frac))

\* f'${min_price:.2f}' of a price in hundredths
format_2f(price) ==
    <<"$">> \o IntToStr(price \div 100) \o <<".">> \o Num(price % 100)

FREE == <<"F", "r", "e", "e">>

FROM_SPAN ==
    <<"<", "s", "p", "a", "n", " ", "c", "l", "a", "s", "s", "=", "\"", "f",
      "r", "o", "m", "\"", ">", "F", "r", "o", "m", " ", "<", "/", "s", "p",
      "a", "n", ">">>

\* format_price with the test for a free item made on the maximum price
format_price_zero_max(product) ==
    LET pr == Get(product, "priceRange", EmptyDict)
        min_price == float_amount(Get(Get(pr, "minVariantPrice", EmptyDict),
                                      "amount", <<"0">>))
        max_price == float_amount(Get(Get(pr, "maxVariantPrice", EmptyDict),
                                      "amount", <<"0">>))
    IN  IF max_price = 0 THEN FREE
        ELSE IF min_price # max_price THEN FROM_SPAN \o format_2f(min_price)
        ELSE format_2f(min_price)

format_price(product) ==
    LET pr == Get(product, "priceRange", EmptyDict)
        min_price == float_amount(Get(Get(pr, "minVariantPrice", EmptyDict),
                                      "amount", <<"0">>))
        max_price == float_amount(Get(Get(pr, "maxVariantPrice", EmptyDict),
                                      "amount", <<"0">>))
    IN  IF min_price = 0 THEN FREE
        ELSE IF min_price # max_price THEN FROM_SPAN \o format_2f(min_price)
        ELSE format_2f(min_price)

\* url + '&width=N' or url + '?width=N', lines 182-184 (and 387, 346)
with_width(url, width) ==
    url \o (IF Contains(url, <<"?">>) THEN <<"&">> ELSE <<"?">>)
        \o <<"w", "i", "d", "t", "h", "=">> \o IntToStr(width)

\* A missing or null featuredImage reads as the empty dict, a missing or null
\* url or altText as the empty text: `not x` holds of each of them alike.
get_image_url(product, width) ==
    LET img == Get(product, "featuredImage", EmptyDict)
    IN  IF img = EmptyDict \/ Get(img, "url", <<>>) = <<>> THEN <<>>
        ELSE with_width(img.url, width)

get_image_alt(product) ==
    LET img == Get(product, "featuredImage", EmptyDict)
    IN  IF img # EmptyDict /\ Get(img, "altText", <<>>) # <<>>
        THEN escape(img.altText)
        ELSE escape(Get(product, "title", <<>>))

-----------------------------------------------------------------------------
(* Fragment renderer *)

\* The three call-to-action forms both renderers emit.  tag, href, variant,
\* disabled and text are the parts of the markup the f-string fills in.
LinkCta(handle, text) ==
    [tag |-> "a",
     href |-> escape(<<"h", "t", "t", "p", "s", ":", "/", "/">> \o SHOPIFY_DOMAIN
                     \o <<"/", "p", "r", "o", "d", "u", "c", "t", "s", "/">>
                     \o handle),
     text |-> text]

ButtonCta(variant_id, is_disabled, text) ==
    [tag |-> "button",
     variant |-> escape(variant_id),
     disabled |-> is_disabled,
     text |-> text]

\* width=600, the default of get_image_url, and the width of JSON-LD images
DEFAULT_WIDTH == 600
JSONLD_WIDTH == 1200

\* build_product_card, lines 237-245
card_cta_swapped(is_custom, available, handle, variant_id) ==
    IF ~available THEN ButtonCta(variant_id, TRUE, "Sold Out")
    ELSE IF is_custom THEN LinkCta(handle, "View &amp; Customize")
    ELSE ButtonCta(variant_id, FALSE, "Add to Cart")

card_cta(is_custom, available, handle, variant_id) ==
    IF is_custom THEN LinkCta(handle, "View &amp; Customize")
    ELSE IF ~available THEN ButtonCta(variant_id, TRUE, "Sold Out")
    ELSE ButtonCta(variant_id, FALSE, "Add to Cart")

build_product_card(product, is_shop_page) ==
    LET title == escape(Get(product, "title", <<>>))
        product_id == Get(product, "id", <<>>)
        handle == Get(product, "handle", <<>>)
        category == get_category(product)
        available == Get(product, "availableForSale", TRUE)
        is_custom == is_custom_product(product)
        variant_id == get_first_variant_id(product)
    IN  [sold_out_class |-> ~available,
         product_id |-> escape(product_id),
         cat_attr |-> IF is_shop_page THEN category ELSE "",
         handle |-> handle,
         link_href |-> <<"/", "s", "h", "o", "p", "/">> \o handle \o <<"/">>,
         image_src |-> get_image_url(product, DEFAULT_WIDTH),
         image_alt |-> get_image_alt(product),
         title |-> title,
         price_html |-> format_price(product),
         cta |-> card_cta(is_custom, available, handle, variant_id)]

\* build_product_page_html, lines 350-358
page_cta(is_custom, available, handle, variant_id) ==
    IF is_custom THEN LinkCta(handle, "Customize &amp; Order")
    ELSE IF ~available THEN ButtonCta(variant_id, TRUE, "Sold Out")
    ELSE ButtonCta(variant_id, FALSE, "Add to Cart")

\* [p for p in seq if keep(p)], as the list of kept positions in order
RECURSIVE KeptFrom(_, _)
KeptFrom(keep, i) ==
    IF i > Len(keep) THEN <<>>
    ELSE (IF keep[i] THEN <<i>> ELSE <<>>) \o KeptFrom(keep, i + 1)

\* Python's None, as dict.get returns it for a missing key
None == <<"<None>">>

InList(p, list) == \E k \in 1..Len(list) : list[k] = p

\* build_product_page_html, lines 360-366, with a backfill that does not
\* leave out the products already selected
related_products_refill(product, all_products) ==
    LET product_id == Get(product, "id", <<>>)
        category == get_category(product)
        same_cat == [i \in 1..Len(all_products) |->
                        /\ Get(all_products[i], "id", None) # product_id
                        /\ get_category(all_products[i]) = category]
        related0Idx == KeptFrom(same_cat, 1)
        related0 == [k \in 1..Len(related0Idx) |-> all_products[related0Idx[k]]]
        is_other == [i \in 1..Len(all_products) |->
                        Get(all_products[i], "id", None) # product_id]
        otherIdx == KeptFrom(is_other, 1)
        other == [k \in 1..Len(otherIdx) |-> all_products[otherIdx[k]]]
        related1 == IF Len(related0) < 4
                    THEN related0 \o Upto(other, 4 - Len(related0))
                    ELSE related0
    IN  Upto(related1, 4)

\* build_product_page_html, lines 360-366, without the backfill
related_products_same_only(product, all_products) ==
    LET product_id == Get(product, "id", <<>>)
        category == get_category(product)
        same_cat == [i \in 1..Len(all_products) |->
                        /\ Get(all_products[i], "id", None) # product_id
                        /\ get_category(all_products[i]) = category]
        related0Idx == KeptFrom(same_cat, 1)
        related0 == [k \in 1..Len(related0Idx) |-> all_products[related0Idx[k]]]
    IN  Upto(related0, 4)

\* build_product_page_html, lines 360-366
related_products(product, all_products) ==
    LET product_id == Get(product, "id", <<>>)
        category == get_category(product)
        same_cat == [i \in 1..Len(all_products) |->
                        /\ Get(all_products[i], "id", None) # product_id
                        /\ get_category(all_products[i]) = category]
        related0Idx == KeptFrom(same_cat, 1)
        related0 == [k \in 1..Len(related0Idx) |-> all_products[related0Idx[k]]]
        is_other == [i \in 1..Len(all_products) |->
                        /\ Get(all_products[i], "id", None) # product_id
                        /\ ~InList(all_products[i], related0)]
        otherIdx == KeptFrom(is_other, 1)
        other == [k \in 1..Len(otherIdx) |-> all_products[otherIdx[k]]]
        related1 == IF Len(related0) < 4
                    THEN related0 \o Upto(other, 4 - Len(related0))
                    ELSE related0
    IN  Upto(related1, 4)

\* A JSON value of the image field: a string, or an array of strings
JsonString(text) == [json |-> "string", value |-> text]
JsonArray(list) == [json |-> "array", value |-> list]

SITE_SHOP ==
    <<"h", "t", "t", "p", "s", ":", "/", "/", "m", "a", "g", "n", "e", "t",
      "m", "o", "m", "e", "n", "t", "s", "c", "o", ".", "u", "s", "/", "s",
      "h", "o", "p", "/">>

\* build_product_page_html, lines 282 and 385-413: the page's JSON-LD document
product_jsonld(product) ==
    LET images == Get(Get(product, "images", EmptyDict), "nodes", <<>>)
        has_url == [i \in 1..Len(images) |-> Get(images[i], "url", <<>>) # <<>>]
        withUrl == KeptFrom(has_url, 1)
        jsonld_images == [k \in 1..Len(withUrl) |->
                             with_width(images[withUrl[k]].url, JSONLD_WIDTH)]
    IN  [type |-> "Product",
         name |-> Get(product, "title", <<>>),
         image |-> IF Len(jsonld_images) > 1 THEN JsonArray(jsonld_images)
                   ELSE IF jsonld_images # <<>> THEN JsonString(jsonld_images[1])
                   ELSE JsonString(<<>>),
         url |-> SITE_SHOP \o Get(product, "handle", <<>>) \o <<"/">>,
         available |-> Get(product, "availableForSale", TRUE)]

\* build_jsonld_products: the ItemList document of the listing and home pages
build_jsonld_products(all_products) ==
    LET item(p) ==
            [type |-> "Product",
             name |-> Get(p, "title", <<>>),
             image |-> JsonString(get_image_url(p, JSONLD_WIDTH)),
             url |-> SITE_SHOP \o Get(p, "handle", <<>>) \o <<"/">>,
             available |-> Get(p, "availableForSale", TRUE)]
    IN  [type |-> "ItemList",
         numberOfItems |-> Len(all_products),
         itemListElement |-> [i \in 1..Len(all_products) |->
                                 [position |-> i, item |-> item(all_products[i])]]]

build_product_page_html(product, all_products) ==
    LET title == escape(Get(product, "title", <<>>))
        handle == Get(product, "handle", <<>>)
        product_id == Get(product, "id", <<>>)
        is_custom == is_custom_product(product)
        available == Get(product, "availableForSale", TRUE)
        variant_id == get_first_variant_id(product)
        related == related_products(product, all_products)
    IN  [title |-> title,
         handle |-> handle,
         product_id |-> escape(product_id),
         sold_out |-> ~available,
         cta_html |-> page_cta(is_custom, available, handle, variant_id),
         jsonld |-> product_jsonld(product),
         related_cards |-> [k \in 1..Len(related) |->
                               [handle |-> Get(related[k], "handle", <<>>),
                                title |-> escape(Get(related[k], "title", <<>>))]]]

\* update_home_page, lines 847-853, without the cap on tagged products
featured_subset_uncapped(all_products) ==
    LET is_featured == [i \in 1..Len(all_products) |->
                           LET tags == Get(all_products[i], "tags", <<>>)
                           IN  \E t \in 1..Len(tags) : lower(tags[t]) = FEATURED_TAG]
        featuredIdx == KeptFrom(is_featured, 1)
        featured == [k \in 1..Len(featuredIdx) |-> all_products[featuredIdx[k]]]
    IN  IF featured = <<>> THEN Upto(all_products, 6) ELSE featured

\* update_home_page, lines 847-853: the featured subset
featured_subset(all_products) ==
    LET is_featured == [i \in 1..Len(all_products) |->
                           LET tags == Get(all_products[i], "tags", <<>>)
                           IN  \E t \in 1..Len(tags) : lower(tags[t]) = FEATURED_TAG]
        featuredIdx == KeptFrom(is_featured, 1)
        featured == [k \in 1..Len(featuredIdx) |-> all_products[featuredIdx[k]]]
    IN  IF featured = <<>> THEN Upto(all_products, 6) ELSE Upto(featured, 6)

-----------------------------------------------------------------------------
(* Catalogs the rendering operations are applied to *)

ProductId(n) == <<"g", "i", "d", ":">> \o Num(n)
Handle(n) == <<"m", "a", "g", "-">> \o Num(n)

TagCustom == <<"C", "u", "s", "t", "o", "m", " ", "P", "h", "o", "t", "o", " ",
               "M", "a", "g", "n", "e", "t", "s">>
TagCustomUpper == <<"C", "U", "S", "T", "O", "M", " ", "P", "H", "O", "T", "O",
                    " ", "M", "A", "G", "N", "E", "T", "S">>
TagFeatured == <<"F", "e", "a", "t", "u", "r", "e", "d">>
TagUnfeatured == <<"u", "n", "f", "e", "a", "t", "u", "r", "e", "d">>
TagNew == <<"N", "e", "w">>

TitlePlain == <<"D", "o", "g", " ", "&", " ", "\"", "C", "a", "t", "\"">>
TitleCustom == <<"M", "y", " ", "C", "u", "s", "t", "o", "m", " ", "P", "h",
                 "o", "t", "o", " ", "S", "e", "t">>
TitleShort == <<"<", "b", ">">>

Variant(n) == [id |-> <<"v", "'">> \o Num(n), title |-> <<"S">>]

\* One product of every combination of the fields the call to action reads;
\* a field left out of the record is a key the API response lacks.
CardProducts ==
    { [id |-> ProductId(1), handle |-> Handle(1), title |-> ti] @@ tg @@ av @@ vr :
        ti \in {TitlePlain, TitleCustom, TitleShort},
        tg \in {EmptyDict, [tags |-> <<>>], [tags |-> <<TagNew, TagCustom>>],
                [tags |-> <<TagCustomUpper>>], [tags |-> <<TagFeatured>>]},
        av \in {EmptyDict, [availableForSale |-> TRUE], [availableForSale |-> FALSE]},
        vr \in {EmptyDict, [variants |-> [nodes |-> <<>>]],
                [variants |-> [nodes |-> <<Variant(1)>>]],
                [variants |-> [nodes |-> <<Variant(2), Variant(1)>>]]} }

TitleCustomUpper == <<"C", "U", "S", "T", "O", "M", " ", "P", "H", "O", "T", "O", "S">>
TagNearCustom == <<"C", "u", "s", "t", "o", "m", " ", "P", "h", "o", "t", "o">>

\* Products for classification: title and tags missing, empty, or present
ClassifyProducts ==
    { [id |-> ProductId(1), handle |-> Handle(1)] @@ ti @@ tg :
        ti \in {EmptyDict, [title |-> <<>>], [title |-> TitleCustom],
                [title |-> TitleCustomUpper], [title |-> TitleShort]},
        tg \in {EmptyDict, [tags |-> <<>>], [tags |-> <<TagCustom>>],
                [tags |-> <<TagNew, TagCustomUpper>>], [tags |-> <<TagNew>>],
                [tags |-> <<TagNearCustom>>]} }

\* Decimal amounts as the API sends them, each with the price it denotes in
\* hundredths and the dollar amount a two-decimal display shows for it
Amounts ==
    { [amount |-> <<"0">>, hundredths |-> 0, shown |-> <<"$", "0", ".", "0", "0">>],
      [amount |-> <<"0", ".", "0">>, hundredths |-> 0, shown |-> <<"$", "0", ".", "0", "0">>],
      [amount |-> <<"0", ".", "0", "5">>, hundredths |-> 5, shown |-> <<"$", "0", ".", "0", "5">>],
      [amount |-> <<"7">>, hundredths |-> 700, shown |-> <<"$", "7", ".", "0", "0">>],
      [amount |-> <<"1", "9", ".", "9">>, hundredths |-> 1990, shown |-> <<"$", "1", "9", ".", "9", "0">>],
      [amount |-> <<"1", "9", ".", "9", "9">>, hundredths |-> 1999, shown |-> <<"$", "1", "9", ".", "9", "9">>],
      [amount |-> <<"2", "9", ".", "9", "9">>, hundredths |-> 2999, shown |-> <<"$", "2", "9", ".", "9", "9">>],
      [amount |-> <<"1", "2", "0", "0", ".", "0", "0">>, hundredths |-> 120000, shown |-> <<"$", "1", "2", "0", "0", ".", "0", "0">>] }

Money(a) == [amount |-> a.amount, currencyCode |-> <<"U", "S", "D">>]

PriceProducts ==
    { [id |-> ProductId(1), handle |-> Handle(1), title |-> TitleShort] @@ pr :
        pr \in {EmptyDict, [priceRange |-> EmptyDict]}
               \cup { [priceRange |-> [minVariantPrice |-> Money(a)]] : a \in Amounts }
               \cup { [priceRange |-> [minVariantPrice |-> Money(a),
                                       maxVariantPrice |-> Money(b)]] :
                        a \in Amounts, b \in Amounts } }

UrlPlain == <<"/", "/", "c", "/", "a", ".", "p", "n", "g">>
UrlQuery == <<"/", "/", "c", "/", "b", ".", "p", "n", "g", "?", "v", "=", "1", "&", "h", "=", "2">>
AltText == <<"A", " ", "\"", "r", "e", "d", "\"", " ", "<", "o", "n", "e", ">">>

Image(n) == [url |-> IF n = 1 THEN UrlPlain ELSE UrlQuery, altText |-> AltText]

\* The n-th product of a catalog with the given featured image and images
ImageProduct(n, fi, im) ==
    [id |-> ProductId(n), handle |-> Handle(n), title |-> TitlePlain] @@ fi @@ im

FeaturedImages ==
    {EmptyDict, [featuredImage |-> [url |-> UrlPlain]],
     [featuredImage |-> Image(2)], [featuredImage |-> [altText |-> AltText]]}

ImageLists ==
    {EmptyDict, [images |-> [nodes |-> <<>>]],
     [images |-> [nodes |-> <<Image(2)>>]],
     [images |-> [nodes |-> <<Image(1), Image(2)>>]],
     [images |-> [nodes |-> <<Image(1), [altText |-> AltText]>>]]}

ImageCatalogs ==
    { <<ImageProduct(1, fi, im)>> : fi \in FeaturedImages, im \in ImageLists }
        \cup { <<ImageProduct(1, fi, im), ImageProduct(2, fi2, im2)>> :
                 fi \in FeaturedImages, im \in ImageLists,
                 fi2 \in {EmptyDict, [featuredImage |-> Image(1)]},
                 im2 \in {EmptyDict, [images |-> [nodes |-> <<Image(1), Image(2)>>]]} }

\* The n-th product of a catalog, of the given kind
KindProduct(kind, n) ==
    [id |-> ProductId(n), handle |-> Handle(n),
     title |-> IF kind = "titled" THEN TitleCustom ELSE TitleShort,
     tags |-> CASE kind = "custom" -> <<TagCustom>>
                [] kind = "featured" -> <<TagNew, TagFeatured>>
                [] kind = "plain" -> <<TagUnfeatured>>
                [] OTHER -> <<>>,
     availableForSale |-> kind # "plain"]

KindCatalogs(kinds, maxLen) ==
    UNION { { [i \in 1..n |-> KindProduct(ks[i], i)] : ks \in [1..n -> kinds] } :
            n \in 1..maxLen }

\* The catalogs of the worked example: 3 premade and 10 custom products
ExampleCatalogs ==
    { [i \in 1..13 |-> KindProduct(IF i \in pre THEN "plain" ELSE "custom", i)] :
        pre \in { q \in SUBSET (1..13) : Cardinality(q) = 3 } }

RenderCatalogs ==
    { <<p>> : p \in CardProducts \cup ClassifyProducts \cup PriceProducts }
        \cup ImageCatalogs
        \cup KindCatalogs({"custom", "plain"}, MaxCatalog)
        \cup KindCatalogs({"featured", "plain"}, MaxCatalog + 1)
        \cup KindCatalogs({"titled", "featured", "custom"}, 3)
        \cup ExampleCatalogs

-----------------------------------------------------------------------------
(* Rendering: each action applies one rendering operation to the catalog.   *)
(* The operations are pure, so one application per drawn catalog shows all  *)
(* they compute: result records the call and what it returned.              *)

IdlePages ==
    /\ shop = <<>> /\ status = "idle" /\ removed = {} /\ prior = {}
    /\ rerun = FALSE

IdleInject ==
    /\ html = <<>> /\ before = <<>> /\ call = [fn |-> "none"] /\ ret = "none"
    /\ original = <<>> /\ trail = {}

IdleMain ==
    /\ disk = <<>> /\ twin = <<>> /\ start = <<>> /\ run = [pc |-> "idle"]

InitRender ==
    /\ products \in RenderCatalogs
    /\ result = [op |-> "none"]
    /\ IdlePages
    /\ IdleInject
    /\ IdleMain

BuildProductCard(i, is_shop_page) ==
    /\ result.op = "none"
    /\ result' = [op |-> "build_product_card", index |-> i,
                  value |-> build_product_card(products[i], is_shop_page)]
    /\ UNCHANGED <<products, pageVars, injectVars, mainVars>>

BuildProductPageHtml(i) ==
    /\ result.op = "none"
    /\ result' = [op |-> "build_product_page_html", index |-> i,
                  value |-> build_product_page_html(products[i], products),
                  related |-> related_products(products[i], products)]
    /\ UNCHANGED <<products, pageVars, injectVars, mainVars>>

SelectFeatured ==
    /\ result.op = "none"
    /\ result' = [op |-> "featured", value |-> featured_subset(products)]
    /\ UNCHANGED <<products, pageVars, injectVars, mainVars>>

GetCategory(i) ==
    /\ result.op = "none"
    /\ result' = [op |-> "get_category", index |-> i,
                  value |-> get_category(products[i])]
    /\ UNCHANGED <<products, pageVars, injectVars, mainVars>>

FormatPrice(i) ==
    /\ result.op = "none"
    /\ result' = [op |-> "format_price", index |-> i,
                  value |-> format_price(products[i])]
    /\ UNCHANGED <<products, pageVars, injectVars, mainVars>>

BuildJsonldProducts ==
    /\ result.op = "none"
    /\ result' = [op |-> "build_jsonld_products",
                  value |-> build_jsonld_products(products)]
    /\ UNCHANGED <<products, pageVars, injectVars, mainVars>>

NextRender ==
    \/ \E i \in 1..Len(products), is_shop_page \in BOOLEAN :
           BuildProductCard(i, is_shop_page)
    \/ \E i \in 1..Len(products) : BuildProductPageHtml(i)
    \/ SelectFeatured
    \/ \E i \in 1..Len(products) : GetCategory(i)
    \/ \E i \in 1..Len(products) : FormatPrice(i)
    \/ BuildJsonldProducts

SpecRender == InitRender /\ [][NextRender]_vars

-----------------------------------------------------------------------------
(* Marker injector *)

\* Python's s.replace(old, new): every non-overlapping occurrence, left to right
RECURSIVE Replace(_, _, _)
Replace(s, old, new) ==
    IF ~Contains(s, old) THEN s
    ELSE LET i == Index(s, old)
         IN  Upto(s, i) \o new \o Replace(From(s, i + Len(old)), old, new)

\* f.read() of a file opened with open(filepath, 'r'): text mode translates
\* the line endings CR LF and CR of the file to LF.  Writing with
\* open(filepath, 'w') on a POSIX system stores LF as it is, so the text
\* written is the content of the file afterwards.
RECURSIVE read_text(_)
read_text(data) ==
    IF ~Contains(data, <<"\r">>) THEN data
    ELSE LET cr == Index(data, <<"\r">>)
             lf == IF Len(data) > cr + 1 /\ data[cr + 2] = "\n" THEN 2 ELSE 1
         IN  Upto(data, cr) \o <<"\n">> \o read_text(From(data, cr + lf))

\* inject_into_html that tests the start marker only: html.index(end_marker)
\* raises ValueError when the end marker is absent, before anything is written
inject_into_html_start_only(doc, start_marker, end_marker, new_content) ==
    IF ~Contains(doc, start_marker)
    THEN [html |-> doc, ret |-> "False"]
    ELSE IF ~Contains(doc, end_marker)
    THEN [html |-> doc, ret |-> "ValueError"]
    ELSE LET html_ == read_text(doc)
             start_idx == Index(html_, start_marker) + Len(start_marker)
             end_idx == Index(html_, end_marker)
         IN  [html |-> Upto(html_, start_idx) \o <<"\n">> \o new_content
                          \o <<"\n", " ", " ", " ", " ", " ", " ", " ", " ">>
                          \o From(html_, end_idx),
              ret |-> "True"]

\* inject_into_html keeping what was between the markers after the new content
inject_into_html_keep_old(doc, start_marker, end_marker, new_content) ==
    IF ~Contains(doc, start_marker) \/ ~Contains(doc, end_marker)
    THEN [html |-> doc, ret |-> "False"]
    ELSE LET html_ == read_text(doc)
             start_idx == Index(html_, start_marker) + Len(start_marker)
         IN  [html |-> Upto(html_, start_idx) \o <<"\n">> \o new_content
                          \o <<"\n", " ", " ", " ", " ", " ", " ", " ", " ">>
                          \o From(html_, start_idx),
              ret |-> "True"]

\* inject_into_html(filepath, start_marker, end_marker, new_content), where
\* doc is the content of the file: the content of the file afterwards and
\* the value returned.  html_ is the text read; nothing is written when a
\* marker is missing.
inject_into_html(doc, start_marker, end_marker, new_content) ==
    LET html_ == read_text(doc)
    IN  IF ~Contains(html_, start_marker) \/ ~Contains(html_, end_marker)
        THEN [html |-> doc, ret |-> "False"]
        ELSE LET start_idx == Index(html_, start_marker) + Len(start_marker)
                 end_idx == Index(html_, end_marker)
             IN  [html |-> Upto(html_, start_idx) \o <<"\n">> \o new_content
                              \o <<"\n", " ", " ", " ", " ", " ", " ", " ", " ">>
                              \o From(html_, end_idx),
                  ret |-> "True"]

marker_start ==
    <<"<", "!", "-", "-", " ", "P", "R", "O", "D", "U", "C", "T", "S", "_",
      "J", "S", "O", "N", "L", "D", "_", "S", "T", "A", "R", "T", " ", "-",
      "-", ">">>

marker_end ==
    <<"<", "!", "-", "-", " ", "P", "R", "O", "D", "U", "C", "T", "S", "_",
      "J", "S", "O", "N", "L", "D", "_", "E", "N", "D", " ", "-", "-", ">">>

HEAD_CLOSE == <<"<", "/", "h", "e", "a", "d", ">">>

\* inject_jsonld(filepath, new_jsonld_str), where doc is the content of the
\* file and html_ the text read from it.  html.index(marker_end) raises
\* ValueError when only the start marker is there, before anything is
\* written; otherwise the whole text is written back, with or without an
\* insertion.
inject_jsonld(doc, new_jsonld_str) ==
    LET html_ == read_text(doc)
    IN  IF Contains(html_, marker_start)
        THEN IF ~Contains(html_, marker_end)
             THEN [html |-> doc, ret |-> "ValueError"]
             ELSE LET start_idx == Index(html_, marker_start)
                      end_idx == Index(html_, marker_end) + Len(marker_end)
                  IN  [html |-> Upto(html_, start_idx) \o marker_start
                                   \o <<"\n", " ", " ">> \o new_jsonld_str
                                   \o <<"\n", " ", " ">> \o marker_end
                                   \o From(html_, end_idx),
                       ret |-> "None"]
        ELSE LET insertion == <<" ", " ">> \o marker_start \o <<"\n", " ", " ">>
                                  \o new_jsonld_str \o <<"\n", " ", " ">>
                                  \o marker_end \o <<"\n">>
             IN  [html |-> Replace(html_, HEAD_CLOSE, insertion \o HEAD_CLOSE),
                  ret |-> "None"]

-----------------------------------------------------------------------------
(* Injections into a host document *)

\* update_shop_page, lines 832-833: the fragment markers of the listing page
PRODUCTS_START ==
    <<"<", "!", "-", "-", " ", "P", "R", "O", "D", "U", "C", "T", "S", "_",
      "S", "T", "A", "R", "T", " ", "-", "-", ">">>

PRODUCTS_END ==
    <<"<", "!", "-", "-", " ", "P", "R", "O", "D", "U", "C", "T", "S", "_",
      "E", "N", "D", " ", "-", "-", ">">>

\* Host documents: up to MaxPieces pieces, each a marker, the closing head
\* tag, other text, or a line ending (CR LF or CR)
DocPieces ==
    {PRODUCTS_START, PRODUCTS_END, marker_start, marker_end, HEAD_CLOSE,
     <<"o", "l", "d">>, <<"\r", "\n">>, <<"\r">>}

HostDocuments ==
    UNION { { Concat(ps) : ps \in [1..n -> DocPieces] } : n \in 0..MaxPieces }

\* Generated content to inject
NewContents == {<<"n", "e", "w">>, <<"{", "}">>}

InitInject ==
    /\ products = <<>>
    /\ result = [op |-> "none"]
    /\ IdlePages
    /\ html \in HostDocuments
    /\ before = <<>>
    /\ call = [fn |-> "none"]
    /\ ret = "none"
    /\ original = html
    /\ trail = {}
    /\ IdleMain

InjectIntoHtml(new_content) ==
    /\ Len(html) <= MaxDocLen
    /\ LET done == inject_into_html(html, PRODUCTS_START, PRODUCTS_END, new_content)
       IN  /\ html' = done.html
           /\ ret' = done.ret
    /\ before' = html
    /\ call' = [fn |-> "inject_into_html", new_content |-> new_content]
    /\ trail' = trail \cup {"inject_into_html"}
    /\ UNCHANGED <<renderVars, pageVars, original, mainVars>>

InjectJsonld(new_jsonld_str) ==
    /\ Len(html) <= MaxDocLen
    /\ LET done == inject_jsonld(html, new_jsonld_str)
       IN  /\ html' = done.html
           /\ ret' = done.ret
    /\ before' = html
    /\ call' = [fn |-> "inject_jsonld", new_content |-> new_jsonld_str]
    /\ trail' = trail \cup {"inject_jsonld"}
    /\ UNCHANGED <<renderVars, pageVars, original, mainVars>>

NextInject ==
    \/ \E new_content \in NewContents : InjectIntoHtml(new_content)
    \/ \E new_jsonld_str \in NewContents : InjectJsonld(new_jsonld_str)

SpecInject == InitInject /\ [][NextInject]_vars

\* The text strictly between the first start marker and the first end
\* marker of a document that holds both
Between(doc, start_marker, end_marker) ==
    SubSeq(doc, Index(doc, start_marker) + Len(start_marker) + 1,
           Index(doc, end_marker))

HasBoth(doc, start_marker, end_marker) ==
    Contains(doc, start_marker) /\ Contains(doc, end_marker)

\* The layout inject_into_html gives the new content between the markers
Fragment(new_content) ==
    <<"\n">> \o new_content \o <<"\n", " ", " ", " ", " ", " ", " ", " ", " ">>

\* C4: for every host document that holds both markers, after
\* inject_into_html the text between the first start marker and the first
\* end marker of the document is the new content, and the document is as
\* before up to and including the start marker and from the end marker on.
C4_InjectFrame ==
    (/\ call.fn = "inject_into_html"
     /\ HasBoth(before, PRODUCTS_START, PRODUCTS_END))
        => /\ HasBoth(html, PRODUCTS_START, PRODUCTS_END)
           /\ Between(html, PRODUCTS_START, PRODUCTS_END)
                  = Fragment(call.new_content)
           /\ Upto(html, Index(html, PRODUCTS_START) + Len(PRODUCTS_START))
                  = Upto(before, Index(before, PRODUCTS_START) + Len(PRODUCTS_START))
           /\ From(html, Index(html, PRODUCTS_END))
                  = From(before, Index(before, PRODUCTS_END))

\* C5: when the start marker or the end marker is absent from the host
\* document, inject_into_html returns False, raises nothing and leaves the
\* document as it was.
C5_MissingMarkerReported ==
    (/\ call.fn = "inject_into_html"
     /\ ~HasBoth(before, PRODUCTS_START, PRODUCTS_END))
        => ret = "False" /\ html = before

\* The end marker alone was missing and the call reported failure
C5_Witness ==
    /\ call.fn = "inject_into_html"
    /\ Contains(before, PRODUCTS_START)
    /\ ~Contains(before, PRODUCTS_END)
    /\ ret = "False"

\* The marker pair and content inject_jsonld puts before the closing tag
Insertion(new_jsonld_str) ==
    <<" ", " ">> \o marker_start \o <<"\n", " ", " ">> \o new_jsonld_str
        \o <<"\n", " ", " ">> \o marker_end \o <<"\n">>

\* C6: when neither metadata marker is in the host document, inject_jsonld
\* inserts the marker pair with the content once, immediately before the
\* first </head>, and changes nothing else; when both markers are in it,
\* the text between them becomes the content and nothing else changes.
C6_JsonldInjection ==
    call.fn = "inject_jsonld" =>
        /\ (/\ ~Contains(before, marker_start)
            /\ ~Contains(before, marker_end)
            /\ Contains(before, HEAD_CLOSE))
               => html = Upto(before, Index(before, HEAD_CLOSE))
                             \o Insertion(call.new_content)
                             \o From(before, Index(before, HEAD_CLOSE))
        /\ HasBoth(before, marker_start, marker_end)
               => /\ HasBoth(html, marker_start, marker_end)
                  /\ Between(html, marker_start, marker_end)
                         = <<"\n", " ", " ">> \o call.new_content
                               \o <<"\n", " ", " ">>
                  /\ Upto(html, Index(html, marker_start) + Len(marker_start))
                         = Upto(before, Index(before, marker_start) + Len(marker_start))
                  /\ From(html, Index(html, marker_end))
                         = From(before, Index(before, marker_end))


\* The number of places of the text where sub occurs
Count(s, sub) == Cardinality({i \in 1..Len(s) : OccursAt(s, sub, i)})

\* The document without its metadata marker pair and what the pair encloses
OutsidePair(doc) ==
    Upto(doc, Index(doc, marker_start))
        \o From(doc, Index(doc, marker_end) + Len(marker_end))

\* Only inject_jsonld has been called, on a host document that had exactly
\* one closing head tag and neither metadata marker
JsonldOnlyRun ==
    /\ trail = {"inject_jsonld"}
    /\ Count(original, HEAD_CLOSE) = 1
    /\ ~Contains(original, marker_start)
    /\ ~Contains(original, marker_end)

OnePairAroundLatest ==
    /\ Count(html, marker_start) = 1
    /\ Count(html, marker_end) = 1
    /\ Between(html, marker_start, marker_end)
           = <<"\n", " ", " ">> \o call.new_content \o <<"\n", " ", " ">>

\* C19: after one or more inject_jsonld calls on a host document
\* with exactly one closing head tag and no metadata markers, the document
\* holds exactly one marker pair around the content of the latest call and
\* all text outside the pair is the text of the original document.
C19_OutsideAsOriginal ==
    JsonldOnlyRun => OnePairAroundLatest /\ OutsidePair(html) = original

\* The first start marker of the document precedes its first end marker
Ordered(doc) ==
    /\ HasBoth(doc, PRODUCTS_START, PRODUCTS_END)
    /\ Index(doc, PRODUCTS_START) < Index(doc, PRODUCTS_END)

\* C20: for a host document whose first start marker precedes its first end
\* marker, a second inject_into_html call with the same markers and content
\* leaves the document as the first call left it.
C20_InjectIdempotent ==
    [][(/\ call.fn = "inject_into_html"
        /\ Ordered(before)
        /\ call'.fn = "inject_into_html"
        /\ call'.new_content = call.new_content) => html' = html]_vars

\* The call was repeated on an ordered document and changed nothing
C20_Witness ==
    /\ call.fn = "inject_into_html"
    /\ ret = "True"
    /\ Ordered(html)
    /\ before = html
    /\ trail = {"inject_into_html"}
    /\ html # original

-----------------------------------------------------------------------------
(* Page reconciler *)

\* An entry of shop/: nothing, a regular file, or a directory.  A directory
\* holds index.html (index = <<content>>) or not (index = <<>>), and may hold
\* other files (extra).
Absent == [kind |-> "absent"]
File == [kind |-> "file"]
Dir(index, extra) == [kind |-> "dir", index |-> index, extra |-> extra]

\* os.makedirs(page_dir, exist_ok=True) raises FileExistsError on a file
makedirs_raises(entry) == entry.kind = "file"

\* os.makedirs(page_dir, exist_ok=True), then open(page_file, 'w').write(html)
write_page(entry, page) ==
    Dir(<<page>>, IF entry.kind = "dir" THEN entry.extra ELSE FALSE)

\* generate_product_pages, lines 779-794: the loop over the catalog, from
\* position i on.  raised tells that an exception ended the loop.
RECURSIVE write_pages(_, _, _, _)
write_pages(all_products, i, fs, current_handles) ==
    IF i > Len(all_products)
    THEN [fs |-> fs, current_handles |-> current_handles, raised |-> FALSE]
    ELSE LET product == all_products[i]
             handle == Get(product, "handle", <<>>)
         IN  IF handle = <<>>
             THEN write_pages(all_products, i + 1, fs, current_handles)
             ELSE IF makedirs_raises(fs[handle])
             THEN [fs |-> fs,
                   current_handles |-> current_handles \cup {handle},
                   raised |-> TRUE]
             ELSE write_pages(
                      all_products, i + 1,
                      [fs EXCEPT ![handle] =
                          write_page(@, build_product_page_html(product, all_products))],
                      current_handles \cup {handle})

\* generate_product_pages, lines 802-807, with the test of index.html inverted
is_stale_inverted(fs, entry, current_handles) ==
    /\ fs[entry].kind = "dir"
    /\ entry \notin current_handles
    /\ fs[entry].index = <<>>

\* generate_product_pages, lines 802-807, without the test of index.html
is_stale_any_dir(fs, entry, current_handles) ==
    /\ fs[entry].kind = "dir"
    /\ entry \notin current_handles

\* generate_product_pages, lines 802-807, without the test of current_handles
is_stale_any_page(fs, entry, current_handles) ==
    /\ fs[entry].kind = "dir"
    /\ fs[entry].index # <<>>

\* generate_product_pages, lines 802-807: the entry is removed
is_stale(fs, entry, current_handles) ==
    /\ fs[entry].kind = "dir"
    /\ entry \notin current_handles
    /\ fs[entry].index # <<>>

\* generate_product_pages, lines 796-811: the clean-up loop
remove_stale(fs, current_handles) ==
    [entry \in DOMAIN fs |->
        IF is_stale(fs, entry, current_handles) THEN Absent ELSE fs[entry]]

-----------------------------------------------------------------------------
(* Reconciliation runs on a shop/ directory *)

AssetsDir == <<"i", "m", "g">>

ShopNames == {Handle(1), Handle(2), AssetsDir}

\* What a page directory may hold before the first run
StalePage == [title |-> <<"o", "l", "d">>]

InitialEntries ==
    {Absent, File, Dir(<<>>, TRUE), Dir(<<StalePage>>, FALSE)}

PageProducts ==
    {[id |-> ProductId(1), handle |-> Handle(1), title |-> TitleShort,
      tags |-> <<TagCustomUpper>>],
     [id |-> ProductId(2), handle |-> Handle(2), title |-> TitleShort,
      availableForSale |-> FALSE],
     [id |-> ProductId(3), title |-> TitleShort]}

\* Catalogs of distinct products, as the API returns them
PageCatalogs ==
    UNION { { c \in [1..n -> PageProducts] :
                \A i, j \in 1..n : i # j => c[i] # c[j] } :
            n \in 0..MaxPageCatalog }

\* The non-empty handles of a catalog
CatalogHandles(catalog) ==
    {Get(catalog[i], "handle", <<>>) : i \in 1..Len(catalog)} \ {<<>>}

InitPages ==
    /\ products = <<>>
    /\ result = [op |-> "none"]
    /\ shop \in [ShopNames -> InitialEntries]
    /\ status = "idle"
    /\ removed = {}
    /\ prior = {}
    /\ rerun = FALSE
    /\ IdleInject
    /\ IdleMain

\* generate_product_pages(all_products), lines 770-816
GenerateProductPages(all_products) ==
    LET written == write_pages(all_products, 1, shop, {})
    IN  /\ products' = all_products
        /\ IF written.raised
           THEN /\ shop' = written.fs
                /\ removed' = {}
                /\ status' = "raised"
           ELSE /\ shop' = remove_stale(written.fs, written.current_handles)
                /\ removed' = {entry \in DOMAIN written.fs :
                                  is_stale(written.fs, entry, written.current_handles)}
                /\ status' = "returned"
        /\ prior' = IF status = "returned" THEN CatalogHandles(products) ELSE {}
        /\ rerun' = (status = "returned" /\ all_products = products)
        /\ UNCHANGED <<result, injectVars, mainVars>>

NextPages == \E all_products \in PageCatalogs : GenerateProductPages(all_products)

SpecPages == InitPages /\ [][NextPages]_vars

HasPage(entry) == entry.kind = "dir" /\ entry.index # <<>>

\* C1: after generate_product_pages returns, a subdirectory of shop/ holds
\* an index.html detail page if and only if its name is the non-empty handle
\* of an item of the catalog; the directory of an item that got a page on
\* the prior run and is absent from the catalog has been deleted.
C1_PagesMatchCatalog ==
    status = "returned" =>
        /\ \A name \in DOMAIN shop :
               HasPage(shop[name]) <=> name \in CatalogHandles(products)
        /\ \A name \in prior \ CatalogHandles(products) : shop[name] = Absent

\* An item of the prior run is gone from the catalog and so is its directory
C1_Witness ==
    /\ status = "returned"
    /\ \E name \in prior \ CatalogHandles(products) :
           name \in removed /\ shop[name] = Absent
    /\ CatalogHandles(products) # {}

\* C2: a run of generate_product_pages that repeats the catalog of the run
\* before it, which returned, returns too, deletes no directory and leaves
\* every detail page with the content the first run wrote.
C2_RerunIdempotent ==
    [][(status = "returned" /\ products' = products)
          => /\ status' = "returned"
             /\ removed' = {}
             /\ \A name \in CatalogHandles(products) :
                    shop'[name].index = shop[name].index]_vars

\* A catalog with pages was reconciled twice in a row
C2_Witness ==
    /\ rerun
    /\ status = "returned"
    /\ Cardinality(CatalogHandles(products)) = 2

\* C3: a subdirectory of shop/ that holds no index.html and whose name is
\* not a handle of the run's catalog is left as it was by every run.
C3_UnmanagedUntouched ==
    [][\A name \in DOMAIN shop :
           (/\ shop[name].kind = "dir"
            /\ shop[name].index = <<>>
            /\ name \notin CatalogHandles(products'))
               => shop'[name] = shop[name]]_vars

\* A run removed a stale page directory and an unmanaged one is still there
C3_Witness ==
    /\ status = "returned"
    /\ removed # {}
    /\ \E name \in DOMAIN shop \ CatalogHandles(products) :
           shop[name] = Dir(<<>>, TRUE)

-----------------------------------------------------------------------------
(* The run of main *)

\* A file is <<>> when it does not exist and <<content>> when it does.

\* sep.join(parts)
RECURSIVE Join(_, _)
Join(parts, sep) ==
    IF parts = <<>> THEN <<>>
    ELSE IF Len(parts) = 1 THEN parts[1]
    ELSE parts[1] \o sep \o Join(Tail(parts), sep)

\* What urlopen and the response body can be: a transport failure (URLError),
\* a non-2xx response (HTTPError), a body with 'errors', a body with the nodes
Responses(catalogs) ==
    {[kind |-> "URLError"], [kind |-> "HTTPError"], [kind |-> "errors"]}
        \cup { [kind |-> "data", products |-> c] : c \in catalogs }

\* fetch_products with the test of 'errors' in the body left out
fetch_products_ignoring_errors(response) ==
    IF response.kind \in {"URLError", "HTTPError"}
    THEN [exit |-> "1", products |-> <<>>]
    ELSE [exit |-> "none", products |-> Get(response, "products", <<>>)]

\* fetch_products: an exception of urlopen is caught nowhere and ends the
\* interpreter with status 1, as sys.exit(1) does for an error payload
fetch_products(response) ==
    IF response.kind \in {"URLError", "HTTPError"}
    THEN [exit |-> "1", products |-> <<>>]
    ELSE IF response.kind = "errors"
    THEN [exit |-> "1", products |-> <<>>]
    ELSE [exit |-> "none", products |-> response.products]

\* main, lines 884-886, without the test for an empty catalog
after_fetch_unchecked(all_products) == [exit |-> "none", pc |-> "save_json"]

\* main, lines 884-886: sys.exit(0) on an empty catalog
after_fetch(all_products) ==
    IF all_products = <<>> THEN [exit |-> "0", pc |-> "done"]
    ELSE [exit |-> "none", pc |-> "save_json"]

\* save_json, lines 118-123: the payload, now being datetime.now(timezone.utc)
payload(all_products, now) ==
    [lastUpdated |-> now,
     shopifyDomain |-> SHOPIFY_DOMAIN,
     productCount |-> Len(all_products),
     products |-> all_products]

save_json(fs, all_products, now) ==
    [fs EXCEPT !.data = <<payload(all_products, now)>>]

\* The orders in which os.listdir may return the names of shop/
Orders ==
    { o \in [1..Cardinality(ShopNames) -> ShopNames] :
        \A i, j \in 1..Cardinality(ShopNames) : i # j => o[i] # o[j] }

\* os.listdir(shop_dir): the entries that exist, in the given order.  The
\* regular file shop/index.html is left out: line 802 skips it.
listdir(fs, order) == SelectSeq(order, LAMBDA entry : fs[entry] # Absent)

\* The clean-up loop, lines 798-809, leaving the loop at the first entry that
\* is not a directory instead of going on to the next entry
RECURSIVE remove_stale_listed_break(_, _, _)
remove_stale_listed_break(fs, listing, current_handles) ==
    IF listing = <<>> THEN fs
    ELSE IF fs[Head(listing)].kind # "dir" THEN fs
    ELSE remove_stale_listed_break(
             IF is_stale(fs, Head(listing), current_handles)
             THEN [fs EXCEPT ![Head(listing)] = Absent] ELSE fs,
             Tail(listing), current_handles)

\* The clean-up loop, lines 798-809, entry by entry in the order of the
\* listing: shutil.rmtree removes a stale page directory
RECURSIVE remove_stale_listed(_, _, _)
remove_stale_listed(fs, listing, current_handles) ==
    IF listing = <<>> THEN fs
    ELSE remove_stale_listed(
             IF is_stale(fs, Head(listing), current_handles)
             THEN [fs EXCEPT ![Head(listing)] = Absent] ELSE fs,
             Tail(listing), current_handles)

\* generate_product_pages, lines 796-811, after the loop that writes the
\* pages: an exception of that loop ends the function, otherwise the clean-up
\* loop runs over the listing that os.listdir returned
clean_up(fs, written, listing) ==
    IF written.raised
    THEN [fs |-> [fs EXCEPT !.shop = written.fs], raised |-> TRUE]
    ELSE [fs |-> [fs EXCEPT !.shop =
                     remove_stale_listed(written.fs, listing,
                                         written.current_handles)],
          raised |-> FALSE]

\* The listings os.listdir may return for a directory
Listings(fs) == { listdir(fs, order) : order \in Orders }

\* generate_product_pages on the shop/ directory of the files, os.listdir
\* returning the entries in the given order
generate_product_pages(fs, all_products, order) ==
    LET written == write_pages(all_products, 1, fs.shop, {})
    IN  clean_up(fs, written, listdir(written.fs, order))

CategoryText(category) ==
    IF category = "custom" THEN <<"c", "u", "s", "t", "o", "m">>
    ELSE <<"p", "r", "e", "m", "a", "d", "e">>

\* build_product_card, line 247: the opening tag of the card, which stands
\* here for the markup of the whole card
card_markup(card) ==
        <<"<", "d", "i", "v", " ", "c", "l", "a", "s", "s", "=", "\"", "p",
          "r", "o", "d", "u", "c", "t", "-", "c", "a", "r", "d">>
        \o (IF card.sold_out_class THEN <<" ", "s", "o", "l", "d", "-", "o", "u", "t">>
            ELSE <<>>)
        \o
            <<"\"", " ", "d", "a", "t", "a", "-", "p", "r", "o", "d", "u",
              "c", "t", "-", "i", "d", "=", "\"">>
        \o card.product_id \o <<"\"">>
        \o (IF card.cat_attr = "" THEN <<>>
            ELSE
                <<" ", "d", "a", "t", "a", "-", "c", "a", "t", "e", "g",
                  "o", "r", "y", "=", "\"">>
                \o CategoryText(card.cat_attr) \o <<"\"">>)
        \o <<">">>

\* '\n\n'.join of the cards of the products
cards_html(shown, is_shop_page) ==
    Join([i \in 1..Len(shown) |->
             card_markup(build_product_card(shown[i], is_shop_page))],
         <<"\n", "\n">>)

SCRIPT_OPEN ==
    <<"<", "s", "c", "r", "i", "p", "t", " ", "t", "y", "p", "e", "=", "\"",
      "a", "p", "p", "l", "i", "c", "a", "t", "i", "o", "n", "/", "l", "d",
      "+", "j", "s", "o", "n", "\"", ">", "\n", " ", " ">>

SCRIPT_CLOSE ==
    <<"\n", " ", " ", "<", "/", "s", "c", "r", "i", "p", "t", ">">>

\* json.dumps(jsonld, indent=2), abridged to the url and image of each item
json_dumps(jsonld) ==
    <<"[">>
        \o Join([i \in 1..Len(jsonld.itemListElement) |->
                    <<"\"">> \o jsonld.itemListElement[i].item.url \o <<"\"", " ", "\"">>
                        \o jsonld.itemListElement[i].item.image.value \o <<"\"">>],
                <<",", "\n", " ", " ">>)
        \o <<"]">>

jsonld_str(shown) ==
    SCRIPT_OPEN \o json_dumps(build_jsonld_products(shown)) \o SCRIPT_CLOSE

FEATURED_START ==
    <<"<", "!", "-", "-", " ", "F", "E", "A", "T", "U", "R", "E", "D", "_",
      "S", "T", "A", "R", "T", " ", "-", "-", ">">>

FEATURED_END ==
    <<"<", "!", "-", "-", " ", "F", "E", "A", "T", "U", "R", "E", "D", "_",
      "E", "N", "D", " ", "-", "-", ">">>

\* The two injections of update_shop_page and update_home_page into one host
\* document.  open() raises FileNotFoundError when the file does not exist;
\* inject_jsonld raises ValueError after inject_into_html has written.
update_page(file, start_marker, end_marker, shown, is_shop_page) ==
    IF file = <<>> THEN [file |-> file, raised |-> TRUE]
    ELSE LET fragment == inject_into_html(file[1], start_marker, end_marker,
                                          cards_html(shown, is_shop_page))
             metadata == inject_jsonld(fragment.html, jsonld_str(shown))
         IN  [file |-> <<metadata.html>>, raised |-> metadata.ret = "ValueError"]

update_shop_page(fs, all_products) ==
    LET done == update_page(fs.shop_html, PRODUCTS_START, PRODUCTS_END,
                            all_products, TRUE)
    IN  [fs |-> [fs EXCEPT !.shop_html = done.file], raised |-> done.raised]

update_home_page(fs, all_products) ==
    LET done == update_page(fs.home_html, FEATURED_START, FEATURED_END,
                            featured_subset(all_products), FALSE)
    IN  [fs |-> [fs EXCEPT !.home_html = done.file], raised |-> done.raised]

\* The instants datetime.now() may return to a run
Instants == {<<"T", "1">>, <<"T", "2">>}

OldSnapshot == payload(<<>>, <<"T", "0">>)

\* shop/ directories a run may find: empty, stale pages beside an assets
\* directory, a regular file where a page directory goes, a stale page
\* beside a regular file
MainShops ==
    { [n \in ShopNames |-> Absent],
      (Handle(1) :> Dir(<<StalePage>>, FALSE)) @@ (Handle(2) :> Dir(<<StalePage>>, TRUE))
          @@ (AssetsDir :> Dir(<<>>, TRUE)),
      (Handle(1) :> Absent) @@ (Handle(2) :> File) @@ (AssetsDir :> Absent),
      (Handle(1) :> Dir(<<StalePage>>, FALSE)) @@ (Handle(2) :> File)
          @@ (AssetsDir :> Dir(<<>>, TRUE)) }

\* Host documents a run may find: none, one without markers, one with both
\* marker pairs, one whose metadata end marker is missing
MainDocuments(start_marker, end_marker) ==
    { <<>>,
      <<HEAD_CLOSE \o <<"o", "l", "d">>>>,
      <<marker_start \o marker_end \o HEAD_CLOSE
            \o start_marker \o <<"o", "l", "d">> \o end_marker>>,
      <<marker_start \o HEAD_CLOSE \o start_marker \o end_marker>> }

MainDisks ==
    [data : {<<>>, <<OldSnapshot>>},
     shop : MainShops,
     shop_html : MainDocuments(PRODUCTS_START, PRODUCTS_END),
     home_html : MainDocuments(FEATURED_START, FEATURED_END)]

InitMain ==
    /\ products = <<>>
    /\ result = [op |-> "none"]
    /\ IdlePages
    /\ IdleInject
    /\ disk \in MainDisks
    /\ twin = disk
    /\ start = disk
    /\ run = [pc |-> "fetch_products", exit |-> "none", ran |-> {},
              response |-> "none", relisted |-> FALSE]

\* main, lines 882-886: fetch_products() and the test for an empty catalog
FetchProducts(response) ==
    /\ run.pc = "fetch_products"
    /\ LET fetched == fetch_products(response)
           next == IF fetched.exit # "none" THEN [exit |-> fetched.exit, pc |-> "done"]
                   ELSE after_fetch(fetched.products)
       IN  /\ products' = fetched.products
           /\ run' = [pc |-> next.pc, exit |-> next.exit,
                      ran |-> run.ran \cup {"fetch_products"},
                      response |-> response.kind, relisted |-> FALSE]
    /\ UNCHANGED <<result, pageVars, injectVars, disk, twin, start>>

\* main, line 889: save_json(products); each run reads its own clock
SaveJson(now, twin_now) ==
    /\ run.pc = "save_json"
    /\ disk' = save_json(disk, products, now)
    /\ twin' = save_json(twin, products, twin_now)
    /\ run' = [run EXCEPT !.pc = "generate_product_pages",
                          !.ran = @ \cup {"save_json"}]
    /\ UNCHANGED <<renderVars, pageVars, injectVars, start>>

\* The run after a step that may raise: an exception is caught nowhere, so
\* the run ends there with status 1; after the last step it ends with 0
after_step(name, raised, next) ==
    IF raised
    THEN [run EXCEPT !.pc = "done", !.exit = "1", !.ran = @ \cup {name}]
    ELSE [run EXCEPT !.pc = next,
                     !.exit = IF next = "done" THEN "0" ELSE "none",
                     !.ran = @ \cup {name}]

\* main, line 892: generate_product_pages(products); os.listdir gives each
\* run the entries in an order of its own, and relisted records that the
\* two orders differed
GeneratePages ==
    /\ run.pc = "generate_product_pages"
    /\ LET written == write_pages(products, 1, disk.shop, {})
           twin_written == write_pages(products, 1, twin.shop, {})
       IN  \E listing \in Listings(written.fs),
              twin_listing \in Listings(twin_written.fs) :
               /\ disk' = clean_up(disk, written, listing).fs
               /\ twin' = clean_up(twin, twin_written, twin_listing).fs
               /\ run' = [after_step("generate_product_pages",
                                     written.raised, "update_shop_page")
                              EXCEPT !.relisted = listing # twin_listing]
    /\ UNCHANGED <<renderVars, pageVars, injectVars, start>>

\* main, line 895: update_shop_page(products)
UpdateShopPage ==
    /\ run.pc = "update_shop_page"
    /\ disk' = update_shop_page(disk, products).fs
    /\ twin' = update_shop_page(twin, products).fs
    /\ run' = after_step("update_shop_page",
                         update_shop_page(disk, products).raised,
                         "update_home_page")
    /\ UNCHANGED <<renderVars, pageVars, injectVars, start>>

\* main, line 898: update_home_page(products)
UpdateHomePage ==
    /\ run.pc = "update_home_page"
    /\ disk' = update_home_page(disk, products).fs
    /\ twin' = update_home_page(twin, products).fs
    /\ run' = after_step("update_home_page",
                         update_home_page(disk, products).raised,
                         "done")
    /\ UNCHANGED <<renderVars, pageVars, injectVars, start>>

NextMain ==
    \/ \E response \in Responses(PageCatalogs) : FetchProducts(response)
    \/ \E now \in Instants, twin_now \in Instants : SaveJson(now, twin_now)
    \/ GeneratePages
    \/ UpdateShopPage
    \/ UpdateHomePage

SpecMain == InitMain /\ [][NextMain]_vars

-----------------------------------------------------------------------------
(* The run of main: what it leaves behind *)

\* C11: when the fetch fails (transport failure, non-2xx response or error
\* payload) the run ends with a non-zero exit status and no later step has
\* run: snapshot, detail pages and both host documents are as at the start.
C11_FetchFailureAborts ==
    run.response \in {"URLError", "HTTPError", "errors"} =>
        /\ run.pc = "done"
        /\ run.exit = "1"
        /\ run.ran = {"fetch_products"}
        /\ disk = start

\* An error payload ended a run that had a snapshot and pages to lose
C11_Witness ==
    /\ run.response = "errors"
    /\ run.exit = "1"
    /\ disk = start
    /\ disk.data # <<>>
    /\ disk.shop[Handle(1)] = Dir(<<StalePage>>, FALSE)

\* C12: when the fetch returns an empty catalog the run exits with status
\* zero and none of steps 2-5 runs: the snapshot, every detail-page directory
\* and both host documents are left as they were.
C12_EmptyCatalogExitsClean ==
    (run.response = "data" /\ products = <<>>) =>
        /\ run.pc = "done"
        /\ run.exit = "0"
        /\ run.ran = {"fetch_products"}
        /\ disk = start

\* An empty catalog left a stale page and marked host documents in place
C12_Witness ==
    /\ run.response = "data"
    /\ products = <<>>
    /\ run.exit = "0"
    /\ disk = start
    /\ disk.shop[Handle(1)] = Dir(<<StalePage>>, FALSE)
    /\ disk.shop_html # <<>>
    /\ Contains(disk.shop_html[1], PRODUCTS_START)

\* C13: a failure in the listing page update does not abort the run: once the
\* run has reached the listing page update, the home page update is
\* attempted before the run ends.
C13_HomePageStillAttempted ==
    (run.pc = "done" /\ "update_shop_page" \in run.ran) =>
        "update_home_page" \in run.ran

\* The files with the time stamp of the snapshot, if there is one, blanked
Unstamped(fs) ==
    [fs EXCEPT !.data = IF @ = <<>> THEN @
                        ELSE <<[@[1] EXCEPT !.lastUpdated = <<>>]>>]

\* C17 as stated: two runs from the same files and the same catalog leave
\* identical content in every file they write.
C17_Deterministic == run.pc = "done" => twin = disk

\* C17, amended: two runs from the same files and the same catalog leave
\* identical content in every file they write, but for the lastUpdated time
\* stamp of the snapshot file.  Each run reads its own clock and is handed
\* the entries of shop/ in its own order.
C17_DeterministicButStamp == Unstamped(twin) = Unstamped(disk)

\* Two complete runs that read different clocks and listed shop/ in
\* different orders, removed a stale page beside a regular file and an assets
\* directory, and differ in the snapshot's time stamp alone
C17_Witness ==
    /\ run.pc = "done"
    /\ run.exit = "0"
    /\ run.relisted
    /\ twin # disk
    /\ twin.data[1].lastUpdated # disk.data[1].lastUpdated
    /\ start.shop[Handle(1)] = Dir(<<StalePage>>, FALSE)
    /\ start.shop[Handle(2)] = File
    /\ disk.shop[Handle(1)] = Absent
    /\ disk.shop_html # start.shop_html
    /\ disk.home_html # start.home_html

-----------------------------------------------------------------------------
(* Claims about the rendering operations, checked under SpecRender *)

\* The call to action the last rendering call produced, and its product
RenderedCta ==
    IF result.op = "build_product_card" THEN result.value.cta
    ELSE result.value.cta_html
RenderedProduct == products[result.index]
RendersCta == result.op \in {"build_product_card", "build_product_page_html"}

VendorUrl(product) ==
    <<"h", "t", "t", "p", "s", ":", "/", "/">> \o SHOPIFY_DOMAIN
        \o <<"/", "p", "r", "o", "d", "u", "c", "t", "s", "/">>
        \o Get(product, "handle", <<>>)

\* C7: in the card and in the detail page the call to action is the external
\* link to the vendor-hosted page when the item is custom (available or
\* not), else a disabled "Sold Out" control when the item is unavailable,
\* else an enabled "Add to Cart" control carrying the first variant id.
C7_CtaDecisionOrder ==
    RendersCta =>
        LET p == RenderedProduct
            cta == RenderedCta
            available == Get(p, "availableForSale", TRUE)
        IN  IF is_custom_product(p)
            THEN cta.tag = "a" /\ cta.href = escape(VendorUrl(p))
            ELSE IF ~available
            THEN /\ cta.tag = "button" /\ cta.disabled
                 /\ cta.text = "Sold Out"
            ELSE /\ cta.tag = "button" /\ ~cta.disabled
                 /\ cta.text = "Add to Cart"
                 /\ cta.variant = escape(get_first_variant_id(p))

\* An unavailable custom item was rendered as a card and got the link
C7_Witness ==
    /\ result.op = "build_product_card"
    /\ is_custom_product(RenderedProduct)
    /\ Get(RenderedProduct, "availableForSale", TRUE) = FALSE
    /\ RenderedCta.tag = "a"

\* C8: the related-items list of a detail page has at most 4 entries, never
\* holds the page's own item and never holds the same item twice.
C8_RelatedBounded ==
    result.op = "build_product_page_html" =>
        LET related == result.related
        IN  /\ Len(related) <= 4
            /\ \A k \in 1..Len(related) :
                   /\ related[k] # RenderedProduct
                   /\ Get(related[k], "id", None) # Get(RenderedProduct, "id", <<>>)
            /\ \A j, k \in 1..Len(related) : j # k => related[j] # related[k]

\* A page whose list was backfilled to 4 from a catalog with more to offer
C8_Witness ==
    /\ result.op = "build_product_page_html"
    /\ Len(products) > 5
    /\ Len(result.related) = 4
    /\ \E j, k \in 1..4 :
           get_category(result.related[j]) # get_category(result.related[k])

\* Positions of the catalog other than the rendered item, by category
OthersOfCategory(same) ==
    LET keep == [i \in 1..Len(products) |->
                    /\ i # result.index
                    /\ (get_category(products[i]) = get_category(RenderedProduct))
                           = same]
    IN  KeptFrom(keep, 1)

Min(a, b) == IF a < b THEN a ELSE b

\* C9: the related-items list is the other items of the same category in
\* catalog order, backfilled in catalog order with the remaining other
\* items only when fewer than 4 of those exist; its length is
\* min(4, number of other items).  For a premade item among 2 other premade
\* and 10 custom items it is those 2 premade items plus 2 custom items.
C9_RelatedSelection ==
    result.op = "build_product_page_html" =>
        LET related == result.related
            same == OthersOfCategory(TRUE)
            rest == OthersOfCategory(FALSE)
            order == same \o rest
        IN  /\ Len(related) = Min(4, Len(products) - 1)
            /\ \A k \in 1..Len(related) : related[k] = products[order[k]]
            /\ (/\ get_category(RenderedProduct) = "premade"
                /\ Len(same) = 2 /\ Len(rest) = 10)
                   => /\ Len(related) = 4
                      /\ related[1] = products[same[1]]
                      /\ related[2] = products[same[2]]
                      /\ get_category(related[3]) = "custom"
                      /\ get_category(related[4]) = "custom"

\* The worked example: a premade item, 2 other premade and 10 custom items
C9_Witness ==
    /\ result.op = "build_product_page_html"
    /\ get_category(RenderedProduct) = "premade"
    /\ Len(OthersOfCategory(TRUE)) = 2
    /\ Len(OthersOfCategory(FALSE)) = 10
    /\ Len(result.related) = 4

HasFeaturedTag(product) ==
    \E t \in 1..Len(Get(product, "tags", <<>>)) :
        lower(product.tags[t]) = FEATURED_TAG

\* The position in the catalog of the k-th product that satisfies pick
NthPosition(k, pick(_)) ==
    CHOOSE i \in 1..Len(products) :
        /\ pick(products[i])
        /\ Cardinality({j \in 1..i : pick(products[j])}) = k

\* C10: for a non-empty catalog the featured subset is the first 6 (or
\* fewer) items tagged "featured", compared case-insensitively, in catalog
\* order when an item is tagged, and otherwise the first 6 items of the
\* catalog; it is never empty and never has more than 6 items.
C10_FeaturedSubset ==
    (result.op = "featured" /\ products # <<>>) =>
        LET featured == result.value
            tagged == {i \in 1..Len(products) : HasFeaturedTag(products[i])}
        IN  /\ Len(featured) >= 1
            /\ Len(featured) <= 6
            /\ IF tagged # {}
               THEN /\ Len(featured) = Min(6, Cardinality(tagged))
                    /\ \A k \in 1..Len(featured) :
                           featured[k] = products[NthPosition(k, HasFeaturedTag)]
               ELSE /\ Len(featured) = Min(6, Len(products))
                    /\ \A k \in 1..Len(featured) : featured[k] = products[k]

\* More than 6 products are tagged and the subset stops at the sixth
C10_Witness ==
    /\ result.op = "featured"
    /\ Cardinality({i \in 1..Len(products) : HasFeaturedTag(products[i])}) > 6
    /\ Len(result.value) = 6

-----------------------------------------------------------------------------
(* Classification *)

HasTagIgnoringCase(product, tag) ==
    /\ "tags" \in DOMAIN product
    /\ \E t \in 1..Len(product.tags) : lower(product.tags[t]) = lower(tag)

TitleHasIgnoringCase(product, sub) ==
    /\ "title" \in DOMAIN product
    /\ Contains(lower(product.title), lower(sub))

\* C14: classification of any item, its tags or title missing or empty
\* included, returns exactly one of custom and premade, and returns custom
\* if and only if the item carries the tag "Custom Photo Magnets" or its
\* title contains "custom photo", both compared without regard to case.
C14_ClassificationTotal ==
    result.op = "get_category" =>
        /\ result.value \in {"custom", "premade"}
        /\ result.value = "custom" <=>
               \/ HasTagIgnoringCase(RenderedProduct, TagCustom)
               \/ TitleHasIgnoringCase(RenderedProduct, CUSTOM_TITLE)

\* A tagged item without a title was classified custom
C14_Witness ==
    /\ result.op = "get_category"
    /\ "title" \notin DOMAIN RenderedProduct
    /\ HasTagIgnoringCase(RenderedProduct, TagCustom)
    /\ RenderedProduct.tags[2] = TagCustomUpper
    /\ result.value = "custom"

-----------------------------------------------------------------------------
(* Price display *)

\* The text a browser shows for a piece of markup: the markup without its tags
RECURSIVE VisibleText(_)
VisibleText(s) ==
    IF s = <<>> THEN <<>>
    ELSE IF s[1] = "<" /\ Contains(s, <<">">>)
    THEN VisibleText(From(s, Index(s, <<">">>) + 1))
    ELSE <<s[1]>> \o VisibleText(From(s, 1))

\* The entry of the amounts table for a price of the product's range,
\* a price the record lacks being the amount 0
PriceOf(product, key) ==
    LET pr == Get(product, "priceRange", EmptyDict)
        text == Get(Get(pr, key, EmptyDict), "amount", <<"0">>)
    IN  CHOOSE a \in Amounts : a.amount = text

\* C15: format_price returns exactly "Free" when the minimum price is zero,
\* whatever the maximum; otherwise it shows the minimum price as a dollar
\* amount with two decimals, preceded by "From " if and only if the minimum
\* and the maximum differ.
C15_FormatPrice ==
    result.op = "format_price" =>
        LET lo == PriceOf(RenderedProduct, "minVariantPrice")
            hi == PriceOf(RenderedProduct, "maxVariantPrice")
        IN  IF lo.hundredths = 0 THEN result.value = <<"F", "r", "e", "e">>
            ELSE IF lo.hundredths # hi.hundredths
            THEN VisibleText(result.value) = <<"F", "r", "o", "m", " ">> \o lo.shown
            ELSE result.value = lo.shown

\* The range 19.99 to 29.99 was shown as "From $19.99"
C15_Witness ==
    /\ result.op = "format_price"
    /\ PriceOf(RenderedProduct, "minVariantPrice").hundredths = 1999
    /\ PriceOf(RenderedProduct, "maxVariantPrice").hundredths = 2999
    /\ VisibleText(result.value) =
           <<"F", "r", "o", "m", " ", "$", "1", "9", ".", "9", "9">>

-----------------------------------------------------------------------------
(* Structured data and escaping *)

\* The number of images of the product that have a URL
ImageCount(product) ==
    LET images == Get(Get(product, "images", EmptyDict), "nodes", <<>>)
    IN  Cardinality({i \in 1..Len(images) : Get(images[i], "url", <<>>) # <<>>})

ArityKept(product, image) ==
    /\ ImageCount(product) = 1 => image.json = "string"
    /\ ImageCount(product) > 1 => image.json = "array"

\* C16: in the structured data of an item, in the single-item form of the
\* detail page and in the list form of the listing and home pages alike, the
\* image field is a single URL when the item has exactly one image and an
\* array of URLs when it has more than one.
C16_ImageArity ==
    /\ result.op = "build_product_page_html" =>
           ArityKept(RenderedProduct, result.value.jsonld.image)
    /\ result.op = "build_jsonld_products" =>
           \A i \in 1..Len(products) :
               ArityKept(products[i], result.value.itemListElement[i].item.image)

\* The image URL of the product as build_product_card derives it, unescaped
CardImageUrl(product) ==
    LET url == Get(Get(product, "featuredImage", EmptyDict), "url", <<>>)
    IN  IF url = <<>> THEN <<>>
        ELSE url \o <<IF \E i \in 1..Len(url) : url[i] = "?" THEN "&" ELSE "?">>
                 \o <<"w", "i", "d", "t", "h", "=", "6", "0", "0">>

CardAltText(product) ==
    LET alt == Get(Get(product, "featuredImage", EmptyDict), "altText", <<>>)
    IN  IF alt # <<>> THEN alt ELSE Get(product, "title", <<>>)

\* C18: every text of the catalog record placed in the card (title, image
\* alt text, product identifier, variant identifier, handle, image URL) is
\* HTML-escaped in the card.
C18_CardEscaped ==
    result.op = "build_product_card" =>
        LET p == RenderedProduct
            card == result.value
            variants == Get(Get(p, "variants", EmptyDict), "nodes", <<>>)
            variant_id == IF variants = <<>> THEN <<>>
                          ELSE Get(variants[1], "id", <<>>)
        IN  /\ card.title = escape(Get(p, "title", <<>>))
            /\ card.image_alt = escape(CardAltText(p))
            /\ card.product_id = escape(Get(p, "id", <<>>))
            /\ card.cta.tag = "button" => card.cta.variant = escape(variant_id)
            /\ card.cta.tag = "a" => card.cta.href = escape(VendorUrl(p))
            /\ card.link_href = <<"/", "s", "h", "o", "p", "/">>
                                    \o escape(Get(p, "handle", <<>>)) \o <<"/">>
            /\ card.image_src = escape(CardImageUrl(p))

====
